---- MODULE Spec2Model ----
(***************************************************************************)
(* Model of snippets/model.py: a module body of 14 statements that         *)
(* declares a convolutional network with two classification heads.         *)
(*                                                                         *)
(* The statements are elaborated in file order, one action per statement.  *)
(* Each layer call appends the tensor it produces to `nodes` (with the     *)
(* layer's parameters, the tensor it was called on and the shape Keras     *)
(* gives its output) and binds the statement's target name in `env`.       *)
(* `fault` records the first error the interpreter raises on the file:     *)
(* a statement that is not a Python statement, or a read of a name no      *)
(* earlier statement bound.  The elaboration of the declarations goes on   *)
(* past a fault, so that what the file declares can be examined            *)
(* independently of whether the interpreter accepts it.                    *)
(***************************************************************************)
EXTENDS Integers, Sequences, FiniteSets, TLC

\* The literal bound to IM_SIZE on line 2.
IM_SIZE == 16

\* Largest value of the image-size literal that is explored.
MaxImSize == 17

Names ==
  {"tf", "IM_SIZE", "image_input", "conv_1", "conv_2", "conv_flat",
   "fc_1", "fc_2", "weather_output", "ground_output"}

\* Position after the last statement of the file.
Done == 15

VARIABLES
  pc,       \* index of the next statement, 1..14, or Done
  size,     \* value of the literal on line 2
  env,      \* module namespace: name -> binding
  nodes,    \* tensors created so far, in creation order
  effects,  \* effects of the statements outside the namespace
  fault     \* first error raised: "none", "SyntaxError" or "NameError"

vars == <<pc, size, env, nodes, effects, fault>>

Unbound == [tag |-> "unbound", val |-> 0]
Const(v) == [tag |-> "const", val |-> v]
Tensor(i) == [tag |-> "tensor", val |-> i]
Module == [tag |-> "module", val |-> 0]

IsBound(n) == env[n].tag # "unbound"

----------------------------------------------------------------------------
\* Output shapes of the layers, per sample (no batch dimension).

\* padding='same': output extent is ceil(extent / stride).
SamePad(s, stride) == (s + stride - 1) \div stride

\* padding='valid': output extent is floor((extent - window) / stride) + 1.
ValidPad(s, window, stride) ==
  IF s < window THEN 0 ELSE ((s - window) \div stride) + 1

\* Conv2D with padding='valid' instead of 'same'.
ConvOutValid(shape, filters) ==
  <<ValidPad(shape[1], 3, 1), ValidPad(shape[2], 3, 1), filters>>

\* Conv2D(filters, kernel_size=(3, 3), padding='same'), default strides (1, 1).
ConvOut(shape, filters) ==
  <<SamePad(shape[1], 1), SamePad(shape[2], 1), filters>>

\* MaxPooling2D with padding='valid' instead of 'same'.
PoolOutValid(shape) ==
  <<ValidPad(shape[1], 2, 2), ValidPad(shape[2], 2, 2), shape[3]>>

\* MaxPooling2D(padding='same'), default pool_size (2, 2), strides = pool_size.
PoolOut(shape) ==
  <<SamePad(shape[1], 2), SamePad(shape[2], 2), shape[3]>>

RECURSIVE Prod(_)
Prod(s) == IF s = <<>> THEN 1 ELSE Head(s) * Prod(Tail(s))

\* Flatten(): all per-sample dimensions collapse into one.
FlattenOut(shape) == <<Prod(shape)>>

\* Dense(units): the last dimension becomes units.
DenseOut(shape, units) == [shape EXCEPT ![Len(shape)] = units]

\* Dropout(rate): element-wise, the shape is kept.
DropoutOut(shape) == shape

OutShape(kind, shape, units) ==
  CASE kind = "Conv2D"       -> ConvOut(shape, units)
    [] kind = "MaxPooling2D" -> PoolOut(shape)
    [] kind = "Flatten"      -> FlattenOut(shape)
    [] kind = "Dense"        -> DenseOut(shape, units)
    [] kind = "Dropout"      -> DropoutOut(shape)

\* What a call does besides returning a value: the layer constructors and
\* calls of this file build symbolic tensors only.
SideEffects(kind) ==
  CASE kind \in {"Input", "Conv2D", "MaxPooling2D", "Flatten", "Dense",
                 "Dropout"} -> {}
    [] kind = "Model"    -> {"build"}
    [] kind = "compile"  -> {"compile"}
    [] kind = "fit"      -> {"train"}
    [] kind = "evaluate" -> {"evaluate"}
    [] kind = "save"     -> {"disk"}
    [] OTHER             -> {"unknown"}

----------------------------------------------------------------------------
\* Reading names: the first unbound read raises NameError.
ReadFault(reads) ==
  IF fault = "none" /\ \E n \in reads : ~IsBound(n)
  THEN "NameError" ELSE fault

\* target = tf.keras.layers.<kind>(...)(arg), in a statement whose calls are
\* of the kinds `calls`.
Statement(target, arg, kind, units, activation, name, rate, calls) ==
  LET in == env[arg].val
      inShape == IF in = 0 THEN <<>> ELSE nodes[in].shape
      node == [kind |-> kind, units |-> units, activation |-> activation,
               name |-> name, rate |-> rate, input |-> in,
               shape |-> OutShape(kind, inShape, units)]
  IN /\ nodes' = Append(nodes, node)
     /\ env' = [env EXCEPT ![target] = Tensor(Len(nodes) + 1)]
     /\ fault' = ReadFault({"tf", arg})
     /\ effects' = effects \cup UNION {SideEffects(k) : k \in calls}
     /\ pc' = pc + 1
     /\ UNCHANGED size

\* A statement that consists of the one layer call.
Layer(target, arg, kind, units, activation, name, rate) ==
  Statement(target, arg, kind, units, activation, name, rate, {kind})

Init ==
  /\ pc = 1
  /\ size \in 1..MaxImSize
  /\ env = [n \in Names |-> Unbound]
  /\ nodes = <<>>
  /\ effects = {}
  /\ fault = "none"

\* line 1: mport tensorflow as tf
ImportTf ==
  /\ pc = 1
  /\ LET keyword == "mport"
     IN IF keyword = "import"
        THEN /\ env' = [env EXCEPT !["tf"] = Module]
             /\ fault' = fault
        ELSE /\ env' = env
             /\ fault' = IF fault = "none" THEN "SyntaxError" ELSE fault
  /\ pc' = pc + 1
  /\ UNCHANGED <<size, nodes, effects>>

\* line 2: IM_SIZE = 16
SetIM_SIZE ==
  /\ pc = 2
  /\ env' = [env EXCEPT !["IM_SIZE"] = Const(size)]
  /\ pc' = pc + 1
  /\ UNCHANGED <<size, nodes, effects, fault>>

\* line 4: image_input = tf.keras.Input(shape=(IM_SIZE, IM_SIZE, 3))
Bind_image_input ==
  /\ pc = 3
  /\ LET s == env["IM_SIZE"].val
         node == [kind |-> "Input", units |-> 0, activation |-> "none",
                  name |-> "", rate |-> 0, input |-> 0,
                  shape |-> <<s, s, 3>>]
     IN /\ nodes' = Append(nodes, node)
        /\ env' = [env EXCEPT !["image_input"] = Tensor(Len(nodes) + 1)]
  /\ fault' = ReadFault({"tf", "IM_SIZE"})
  /\ effects' = effects \cup SideEffects("Input")
  /\ pc' = pc + 1
  /\ UNCHANGED size

\* lines 7-10
Bind_conv_1 ==
  /\ pc = 4
  /\ Layer("conv_1", "image_input", "Conv2D", 32, "relu", "", 0)

\* The pooled tensor gets a name of its own and conv_1 keeps the raw output.
Rebind_conv_1_NewName ==
  /\ pc = 5
  /\ Layer("conv_flat", "conv_1", "MaxPooling2D", 0, "none", "", 0)

\* line 11
Rebind_conv_1 ==
  /\ pc = 5
  /\ Layer("conv_1", "conv_1", "MaxPooling2D", 0, "none", "", 0)

\* lines 12-15
Bind_conv_2 ==
  /\ pc = 6
  /\ Layer("conv_2", "conv_1", "Conv2D", 32, "relu", "", 0)

\* line 16
Rebind_conv_2 ==
  /\ pc = 7
  /\ Layer("conv_2", "conv_2", "MaxPooling2D", 0, "none", "", 0)

\* line 19
Bind_conv_flat ==
  /\ pc = 8
  /\ Layer("conv_flat", "conv_2", "Flatten", 0, "none", "", 0)

\* lines 22-23
Bind_fc_1 ==
  /\ pc = 9
  /\ Layer("fc_1", "conv_flat", "Dense", 128, "relu", "", 0)

\* line 24 (rate in percent)
Rebind_fc_1 ==
  /\ pc = 10
  /\ Layer("fc_1", "fc_1", "Dropout", 0, "none", "", 20)

\* The second dense layer called on the flattened tensor: a skip connection.
Bind_fc_2_Skip ==
  /\ pc = 11
  /\ Layer("fc_2", "conv_flat", "Dense", 128, "relu", "", 0)

\* The second dense layer declared without an activation.
Bind_fc_2_Linear ==
  /\ pc = 11
  /\ Layer("fc_2", "fc_1", "Dense", 128, "none", "", 0)

\* lines 25-26
Bind_fc_2 ==
  /\ pc = 11
  /\ Layer("fc_2", "fc_1", "Dense", 128, "relu", "", 0)

\* line 27 (rate in percent)
Rebind_fc_2 ==
  /\ pc = 12
  /\ Layer("fc_2", "fc_2", "Dropout", 0, "none", "", 20)

\* lines 30-32
Bind_weather_output ==
  /\ pc = 13
  /\ Layer("weather_output", "fc_2", "Dense", 4, "softmax", "weather", 0)

\* The ground head called on the weather head instead of fc_2.
Bind_ground_output_Chained ==
  /\ pc = 14
  /\ Layer("ground_output", "weather_output", "Dense", 13, "sigmoid",
           "ground", 0)

\* The last statement followed by the construction of a Model.
Bind_ground_output_Model ==
  /\ pc = 14
  /\ Statement("ground_output", "fc_2", "Dense", 13, "sigmoid", "ground", 0,
               {"Dense", "Model"})

\* lines 33-35
Bind_ground_output ==
  /\ pc = 14
  /\ Layer("ground_output", "fc_2", "Dense", 13, "sigmoid", "ground", 0)

Next ==
  \/ ImportTf
  \/ SetIM_SIZE
  \/ Bind_image_input
  \/ Bind_conv_1
  \/ Rebind_conv_1
  \/ Bind_conv_2
  \/ Rebind_conv_2
  \/ Bind_conv_flat
  \/ Bind_fc_1
  \/ Rebind_fc_1
  \/ Bind_fc_2
  \/ Rebind_fc_2
  \/ Bind_weather_output
  \/ Bind_ground_output

Spec == Init /\ [][Next]_vars

----------------------------------------------------------------------------
\* Vocabulary of the properties.

NodeIds == 1..Len(nodes)

\* The tensor a name is bound to (0 when it is bound to none).
At(n) == IF env[n].tag = "tensor" THEN env[n].val ELSE 0

\* The later layer calls that take tensor i as their input.
Consumers(i) == {j \in NodeIds : nodes[j].input = i}

\* Tensors no layer consumes: the outputs of the network.
Sinks == {i \in NodeIds : Consumers(i) = {}}

Kinds == [i \in NodeIds |-> nodes[i].kind]

\* ceil(s / 2), by cases on the parity of s.
HalfUp(s) == IF s % 2 = 0 THEN s \div 2 ELSE (s \div 2) + 1

----------------------------------------------------------------------------
\* C1: the declared network has exactly two output heads, a Dense layer
\* named 'weather' with 4 units and softmax and a Dense layer named 'ground'
\* with 13 units and sigmoid; both take the final fc_2 as their input and no
\* other layer is an output head.
C1_TwoHeads ==
  pc = Done =>
    LET w == At("weather_output")
        g == At("ground_output")
    IN /\ w # 0 /\ g # 0 /\ w # g
       /\ Sinks = {w, g}
       /\ {i \in NodeIds : nodes[i].name # ""} = {w, g}
       /\ nodes[w].kind = "Dense" /\ nodes[w].units = 4
       /\ nodes[w].activation = "softmax" /\ nodes[w].name = "weather"
       /\ nodes[g].kind = "Dense" /\ nodes[g].units = 13
       /\ nodes[g].activation = "sigmoid" /\ nodes[g].name = "ground"
       /\ nodes[w].input = At("fc_2") /\ nodes[g].input = At("fc_2")
       /\ At("fc_2") # 0

C1_Witness ==
  /\ pc = Done
  /\ At("weather_output") = 11
  /\ At("ground_output") = 12
  /\ nodes[11].input = 10 /\ nodes[12].input = 10

\* C2: the layer calls form the chain Input, Conv2D, MaxPooling2D, Conv2D,
\* MaxPooling2D, Flatten, Dense, Dropout, Dense, Dropout; each layer's input
\* is the output of the call just before it, and the only fan-out is at the
\* last Dropout, which feeds the two heads.
C2_LinearChain ==
  /\ \A i \in NodeIds :
       /\ i = 1 => nodes[i].input = 0
       /\ (1 < i /\ i <= 10) => nodes[i].input = i - 1
       /\ i > 10 => nodes[i].input = 10
  /\ \A i \in NodeIds :
       Cardinality(Consumers(i)) > 1 => (i = 10 /\ nodes[i].kind = "Dropout")
  /\ pc = Done =>
       /\ Kinds = <<"Input", "Conv2D", "MaxPooling2D", "Conv2D",
                    "MaxPooling2D", "Flatten", "Dense", "Dropout", "Dense",
                    "Dropout", "Dense", "Dense">>
       /\ Consumers(10) = {11, 12}

C2_Witness ==
  /\ pc = Done
  /\ Len(nodes) = 12
  /\ Cardinality(Consumers(10)) = 2
  /\ \A i \in 1..9 : Consumers(i) = {i + 1}

\* C3: a statement changes nothing but the module namespace: it has no
\* effect outside it (no model built or compiled, no training, data
\* loading, evaluation, disk access, thread or process), it binds at most
\* one name, and the value bound is a constant or the tensor the statement
\* has just created.
C3_Step ==
  /\ effects = {} /\ effects' = {}
  /\ size' = size
  /\ Cardinality({n \in Names : env'[n] # env[n]}) <= 1
  /\ \A n \in Names :
       env'[n] # env[n] =>
         \/ env'[n].tag = "const" /\ nodes' = nodes
         \/ /\ env'[n].tag = "tensor"
            /\ Len(nodes') = Len(nodes) + 1
            /\ env'[n].val = Len(nodes')
  /\ \A i \in NodeIds : i <= Len(nodes') /\ nodes'[i] = nodes[i]

C4_Expected ==
  <<<<16, 16, 3>>, <<16, 16, 32>>, <<8, 8, 32>>, <<8, 8, 32>>, <<4, 4, 32>>,
    <<512>>, <<128>>, <<128>>, <<128>>, <<128>>, <<4>>, <<13>>>>

C4_Shapes16 ==
  size = IM_SIZE =>
    /\ \A i \in NodeIds : nodes[i].shape = C4_Expected[i]
    /\ pc = Done =>
         /\ nodes[At("image_input")].shape = <<16, 16, 3>>
         /\ nodes[At("conv_1")].shape = <<8, 8, 32>>
         /\ nodes[At("conv_2")].shape = <<4, 4, 32>>
         /\ nodes[At("conv_flat")].shape = <<512>>
         /\ nodes[At("fc_1")].shape = <<128>>
         /\ nodes[At("fc_2")].shape = <<128>>
         /\ nodes[At("weather_output")].shape = <<4>>
         /\ nodes[At("ground_output")].shape = <<13>>

C4_Witness ==
  /\ pc = Done
  /\ size = 16
  /\ env["IM_SIZE"] = Const(16)
  /\ nodes[6].kind = "Flatten" /\ nodes[6].shape = <<512>>

\* C5: for every positive IM_SIZE the chain is shape-valid: a Conv2D keeps
\* the spatial size, a MaxPooling2D maps spatial size s to ceil(s/2), the
\* flattened width is ceil(ceil(IM_SIZE/2)/2)^2 * 32 and is never zero, and
\* the head widths are 4 and 13 whatever IM_SIZE is.
C5_ShapeValid ==
  /\ \A i \in NodeIds :
       /\ \A d \in 1..Len(nodes[i].shape) : nodes[i].shape[d] > 0
       /\ Len(nodes[i].shape) > 0
       /\ nodes[i].kind = "Conv2D" =>
            /\ nodes[i].shape[1] = nodes[nodes[i].input].shape[1]
            /\ nodes[i].shape[2] = nodes[nodes[i].input].shape[2]
       /\ nodes[i].kind = "MaxPooling2D" =>
            /\ nodes[i].shape[1] = HalfUp(nodes[nodes[i].input].shape[1])
            /\ nodes[i].shape[2] = HalfUp(nodes[nodes[i].input].shape[2])
       /\ nodes[i].kind = "Flatten" =>
            /\ nodes[i].shape =
                 <<HalfUp(HalfUp(size)) * HalfUp(HalfUp(size)) * 32>>
            /\ nodes[i].shape[1] > 0
  /\ pc = Done =>
       /\ nodes[At("weather_output")].shape = <<4>>
       /\ nodes[At("ground_output")].shape = <<13>>

\* The smallest size, an odd size and a size above the declared one all
\* reach the end of the file.
C5_Witness ==
  /\ pc = Done
  /\ size = 1
  /\ nodes[6].kind = "Flatten" /\ nodes[6].shape = <<32>>

\* C6: both Conv2D layers and both 128-unit Dense layers use relu, the only
\* other activations are softmax on 'weather' and sigmoid on 'ground', and
\* each 128-unit Dense layer is followed by exactly one Dropout layer with
\* rate 0.2, which keeps the shape.
C6_Hidden(i) == nodes[i].kind \in {"Conv2D", "Dense"} /\ nodes[i].name = ""

C6_Activations ==
  /\ \A i \in NodeIds :
       /\ C6_Hidden(i) => nodes[i].activation = "relu"
       /\ nodes[i].kind \notin {"Conv2D", "Dense"} =>
            nodes[i].activation = "none"
       /\ nodes[i].activation \notin {"relu", "none"} =>
            \/ nodes[i].name = "weather" /\ nodes[i].activation = "softmax"
            \/ nodes[i].name = "ground" /\ nodes[i].activation = "sigmoid"
       /\ nodes[i].kind = "Dropout" =>
            /\ nodes[i].rate = 20
            /\ nodes[i].shape = nodes[nodes[i].input].shape
            /\ nodes[nodes[i].input].kind = "Dense"
            /\ nodes[nodes[i].input].units = 128
  /\ pc = Done =>
       /\ Cardinality({i \in NodeIds : nodes[i].kind = "Conv2D"}) = 2
       /\ Cardinality({i \in NodeIds :
                         nodes[i].kind = "Dense" /\ nodes[i].units = 128}) = 2
       /\ \A i \in NodeIds :
            (nodes[i].kind = "Dense" /\ nodes[i].units = 128) =>
              /\ nodes[i].activation = "relu"
              /\ Cardinality(Consumers(i)) = 1
              /\ \A j \in Consumers(i) : nodes[j].kind = "Dropout"

C6_Witness ==
  /\ pc = Done
  /\ nodes[9].kind = "Dense" /\ nodes[9].activation = "relu"
  /\ nodes[10].kind = "Dropout" /\ nodes[10].rate = 20
  /\ nodes[11].activation = "softmax" /\ nodes[12].activation = "sigmoid"

\* C7: executing the file from its first statement to its last, every name a
\* statement reads has been bound by an earlier statement, so execution
\* reaches the end without an error and with weather_output and
\* ground_output both bound.
C7_RunsToEnd ==
  pc = Done =>
    /\ fault = "none"
    /\ IsBound("tf")
    /\ IsBound("weather_output")
    /\ IsBound("ground_output")

\* C8: conv_1, conv_2, fc_1 and fc_2 are rebound to the output of the
\* following MaxPooling2D / Dropout, so a later read never sees the raw
\* Conv2D / Dense output: both heads consume the second Dropout's output,
\* and every intermediate output is consumed by exactly one later layer,
\* except the second Dropout's, which is consumed by exactly two.
C8_Raw(i) == C6_Hidden(i)

C8_Rebinding ==
  /\ \A j \in NodeIds :
       (nodes[j].input # 0 /\ nodes[nodes[j].input].kind = "Conv2D") =>
         nodes[j].kind = "MaxPooling2D"
  /\ \A j \in NodeIds :
       (nodes[j].input # 0 /\ C8_Raw(nodes[j].input)) =>
         nodes[j].kind \in {"MaxPooling2D", "Dropout"}
  /\ pc = Done =>
       /\ nodes[At("conv_1")].kind = "MaxPooling2D"
       /\ nodes[At("conv_2")].kind = "MaxPooling2D"
       /\ nodes[At("fc_1")].kind = "Dropout"
       /\ nodes[At("fc_2")].kind = "Dropout"
       /\ At("fc_1") < At("fc_2")
       /\ nodes[At("weather_output")].input = At("fc_2")
       /\ nodes[At("ground_output")].input = At("fc_2")
       /\ \A i \in NodeIds :
            /\ i = At("fc_2") => Cardinality(Consumers(i)) = 2
            /\ (i # At("fc_2") /\ nodes[i].name = "") =>
                 Cardinality(Consumers(i)) = 1

C8_Witness ==
  /\ pc = Done
  /\ At("conv_1") = 3 /\ At("conv_2") = 5
  /\ At("fc_1") = 8 /\ At("fc_2") = 10
  /\ Consumers(2) = {3} /\ Consumers(10) = {11, 12}

====
